---------------------------- MODULE Spec2Model ----------------------------
(***************************************************************************)
(* A model of the CMake tutorial program: the driver (tutorial.cxx main),  *)
(* the library entry point mathfunctions::sqrt (MathFunctions.cxx) and the *)
(* internal square-root routine the library and the driver refer to.       *)
(*                                                                         *)
(* C strings are sequences of one-character strings.  A double is a record *)
(* [nan, n]: either the not-a-number value or the fixed-point number       *)
(* n / Scale.  Arithmetic rounds towards minus infinity to a multiple of   *)
(* 1 / Scale; every statement about accuracy below carries the rounding of *)
(* the model as an explicit slack.                                         *)
(***************************************************************************)
EXTENDS Integers, Sequences, FiniteSets, TLC

VARIABLES
    argv,          \* the argument vector; argv[1] is C's argv[0], argc = Len(argv)
    build,         \* the build configuration: version numbers and USE_MYMATH per translation unit
    pc,            \* position of main (or of the library client)
    cout,          \* the items inserted into std::cout so far
    status,        \* the exit status of the process; NoStatus while it runs
    match,         \* std::cmatch match of main
    inputValue,    \* const double inputValue of main
    outputValue,   \* const double outputValue of main
    reads,         \* the indices of argv (C numbering) main has read
    mpc,           \* position inside the square-root call
    called,        \* the square-root functions entered so far, in order
    x,             \* the argument of the square-root call
    y,             \* the current estimate of the internal routine / the returned value
    i              \* the number of updates the internal routine has performed

vars == <<argv, build, pc, cout, status, match, inputValue, outputValue,
          reads, mpc, called, x, y, i>>

-----------------------------------------------------------------------------
(* Bounds of the model. *)

\* longest program name (argv[0]) tried in the no-argument branch
MaxNameLen == 3
\* most arguments after the first positional one
MaxExtra == 1
\* largest version number the build environment supplies
MaxVersion == 1
\* largest whole number given to the library client
MaxWhole == 12

\* fixed-point resolution of a double: 1 / Scale
Scale == 10 * 10

-----------------------------------------------------------------------------
(* Doubles. *)

NaN == [nan |-> TRUE, n |-> 0]
Num(n) == [nan |-> FALSE, n |-> n]
Whole(k) == Num(k * Scale)

IsNaN(v) == v.nan
\* the comparisons of IEEE-754: every comparison with NaN is false
FLess(a, b) == ~a.nan /\ ~b.nan /\ a.n < b.n
FEqual(a, b) == ~a.nan /\ ~b.nan /\ a.n = b.n

FAdd(a, b) == IF a.nan \/ b.nan THEN NaN ELSE Num(a.n + b.n)
\* a / b; 0/0 is NaN.  The internal routine never divides a nonzero number by zero.
FDiv(a, b) ==
    IF a.nan \/ b.nan \/ b.n = 0 THEN NaN ELSE Num((a.n * Scale) \div b.n)
FHalf(a) == IF a.nan THEN NaN ELSE Num(a.n \div 2)

\* the largest magnitude the model gives a double: the products of the
\* fixed-point arithmetic on it stay below 2^31
MaxMagnitude == 10 * 10 * 10 * 10 * 10

-----------------------------------------------------------------------------
(* Strings. *)

RECURSIVE StrOf(_)
\* the characters of s as one string (what operator<< writes for a sub_match)
StrOf(s) == IF s = <<>> THEN "" ELSE Head(s) \o StrOf(Tail(s))

RECURSIVE SeqsUpTo(_, _)
\* every sequence over alphabet of length at most k
SeqsUpTo(alphabet, k) ==
    IF k = 0 THEN {<<>>}
    ELSE LET shorter == SeqsUpTo(alphabet, k - 1)
         IN  shorter \cup {Append(s, c) : s \in shorter, c \in alphabet}

-----------------------------------------------------------------------------
(* std::regex_search(argv[0], match, std::regex("[^\\\\|/]+$")) *)

\* The C++ literal "[^\\\\|/]+$" is the regular expression [^\\|/]+$ : inside
\* the bracket expression the bar is an ordinary character, so the negated
\* class excludes backslash, bar and slash.
ForwardSlashOnly == {"/"}
RegexExcluded == {"\\", "|", "/"}

\* the leftmost position from which the rest of s is in the class: the start
\* of the longest trailing run of class characters (Len(s) + 1 when it is empty)
RunStart(s, excluded) ==
    CHOOSE k \in 1..(Len(s) + 1) :
        /\ \A j \in k..Len(s) : s[j] \notin excluded
        /\ \A m \in 1..(k - 1) : \E j \in m..Len(s) : s[j] \in excluded

\* The match_results after the search.  "+" needs one character at least, so
\* an empty run is no match; match[0] of a failed search is the unmatched
\* sub_match, which converts to the empty string.
RegexSearch(s) ==
    LET k == RunStart(s, RegexExcluded)
    IN  [matched |-> k <= Len(s), str |-> SubSeq(s, k, Len(s))]

NoMatch == [matched |-> FALSE, str |-> <<>>]

-----------------------------------------------------------------------------
(* std::stod(argv[1]) *)

Digits == {"0", "1", "2", "3", "4", "5", "6", "7", "8", "9"}
DigitVal(c) ==
    CASE c = "0" -> 0 [] c = "1" -> 1 [] c = "2" -> 2 [] c = "3" -> 3
      [] c = "4" -> 4 [] c = "5" -> 5 [] c = "6" -> 6 [] c = "7" -> 7
      [] c = "8" -> 8 [] c = "9" -> 9

RECURSIVE Pow10(_)
Pow10(k) == IF k <= 0 THEN 1 ELSE 10 * Pow10(k - 1)

\* the first position at or after k whose character is not in class
SkipWhile(s, k, class) ==
    CHOOSE e \in k..(Len(s) + 1) :
        /\ \A j \in k..(e - 1) : s[j] \in class
        /\ e <= Len(s) => s[e] \notin class

RECURSIVE NatOf(_)
\* the number a sequence of digits writes, saturated (used for exponents)
NatOf(ds) ==
    IF ds = <<>> THEN 0
    ELSE LET r == 10 * NatOf(SubSeq(ds, 1, Len(ds) - 1)) + DigitVal(ds[Len(ds)])
         IN  IF r > 9999 THEN 9999 ELSE r

\* DBL_MAX_10_EXP and DBL_MIN_10_EXP: the decimal exponents of the largest
\* and of the smallest normal double
DblMax10Exp == 308
DblMin10Exp == -307

\* the weight, in units of 1 / Scale, of the digit at position k of digits
\* when the decimal point follows position point; digits below the resolution
\* are dropped
Weight(k, digits, point) ==
    IF point >= k THEN DigitVal(digits[k]) * Scale * Pow10(point - k)
    ELSE (DigitVal(digits[k]) * Scale) \div Pow10(k - point)

RECURSIVE SumTo(_, _, _)
SumTo(k, digits, point) ==
    IF k = 0 THEN 0 ELSE SumTo(k - 1, digits, point) + Weight(k, digits, point)

\* The result of std::stod on the string s:
\*   kind = "value"            the longest numeric prefix converted, in v
\*   kind = "invalid_argument" no conversion could be performed
\*   kind = "out_of_range"     strtod reported ERANGE (overflow or underflow)
\* strtod skips leading white space, takes an optional sign, then either "nan"
\* or a decimal significand (digits with an optional point, one digit at
\* least) with an optional exponent (taken only when a digit follows it).
\* The strings of the model use no other form (no hexadecimal, no infinity).
Stod(s) ==
    LET n == Len(s)
        a == SkipWhile(s, 1, {" "})
        signed == a <= n /\ s[a] \in {"+", "-"}
        neg == a <= n /\ s[a] = "-"
        b == IF signed THEN a + 1 ELSE a
        isNan == b + 2 <= n /\ SubSeq(s, b, b + 2) = <<"n", "a", "n">>
        c == SkipWhile(s, b, Digits)
        hasDot == c <= n /\ s[c] = "."
        d == IF hasDot THEN SkipWhile(s, c + 1, Digits) ELSE c
        intDigits == SubSeq(s, b, c - 1)
        fracDigits == IF hasDot THEN SubSeq(s, c + 1, d - 1) ELSE <<>>
        digits == intDigits \o fracDigits
        hasE == d <= n /\ s[d] \in {"e", "E"}
        expSigned == hasE /\ d + 1 <= n /\ s[d + 1] \in {"+", "-"}
        expNeg == expSigned /\ s[d + 1] = "-"
        f == IF expSigned THEN d + 2 ELSE d + 1
        g == IF hasE THEN SkipWhile(s, f, Digits) ELSE d
        hasExp == hasE /\ g > f
        expAbs == IF hasExp THEN NatOf(SubSeq(s, f, g - 1)) ELSE 0
        exp == IF expNeg THEN -expAbs ELSE expAbs
        \* the digit at position k of digits weighs 10^(point - k)
        point == Len(intDigits) + exp
        nonzero == {k \in 1..Len(digits) : digits[k] # "0"}
        lead == CHOOSE k \in nonzero : \A m \in nonzero : k <= m
        sciExp == point - lead
        magnitude == SumTo(Len(digits), digits, point)
    IN  IF isNan THEN [kind |-> "value", v |-> NaN]
        ELSE IF digits = <<>> THEN [kind |-> "invalid_argument", v |-> NaN]
        ELSE IF nonzero = {} THEN [kind |-> "value", v |-> Num(0)]
        ELSE IF sciExp > DblMax10Exp \/ sciExp < DblMin10Exp
             THEN [kind |-> "out_of_range", v |-> NaN]
        ELSE IF sciExp > 9 \/ Pow10(sciExp) > MaxMagnitude \/ magnitude > MaxMagnitude * Scale
             THEN [kind |-> "unmodelled", v |-> NaN]
        ELSE [kind |-> "value", v |-> Num(IF neg THEN -magnitude ELSE magnitude)]

-----------------------------------------------------------------------------
(* The square-root functions. *)

RECURSIVE Bisect(_, _, _)
\* the r with lo <= r < hi and r * r <= m < (r + 1) * (r + 1), given lo * lo <= m < hi * hi
Bisect(lo, hi, m) ==
    IF hi - lo <= 1 THEN lo
    ELSE LET mid == (lo + hi) \div 2
         IN  IF mid * mid <= m THEN Bisect(mid, hi, m) ELSE Bisect(lo, mid, m)

\* std::sqrt: NaN for NaN and for a negative number, else the square root
\* rounded (down) to the resolution of the model
StdSqrt(v) ==
    IF v.nan \/ v.n < 0 THEN NaN ELSE Num(Bisect(0, 40000, v.n * Scale))

\* The internal routine (mysqrt.h / mysqrt.cxx: detail::sqrt, and the mysqrt
\* tutorial.cxx calls).  Its source is not among the files; it is modelled
\* from the specification: NaN for x < 0, 0 for x == 0, otherwise
\* NewtonIterations updates y <- 0.5 * (y + x / y) from y = x.
NewtonIterations == 10

NewtonUpdate(yy, xx) == FHalf(FAdd(yy, FDiv(xx, yy)))

\* the loop test of the internal routine: a fixed count, no convergence test
EarlyExitContinue(k, yy, xx) == k < NewtonIterations /\ NewtonUpdate(yy, xx) # yy
LoopContinues(k, yy, xx) == k < NewtonIterations

\* what the internal routine does on entry: return at once, or start the loop
SkipZeroTestEntry(xx) ==
    IF FLess(xx, Num(0)) THEN [return |-> TRUE, value |-> NaN]
    ELSE [return |-> FALSE, value |-> xx]
InternalEntry(xx) ==
    IF FLess(xx, Num(0)) THEN [return |-> TRUE, value |-> NaN]
    ELSE IF FEqual(xx, Num(0)) THEN [return |-> TRUE, value |-> Num(0)]
    ELSE [return |-> FALSE, value |-> xx]

RECURSIVE NewtonIterate(_, _, _)
\* k updates from the estimate yy
NewtonIterate(yy, xx, k) ==
    IF k = 0 THEN yy ELSE NewtonIterate(NewtonUpdate(yy, xx), xx, k - 1)

\* the value the internal routine returns
InternalSqrt(xx) ==
    LET e == InternalEntry(xx)
    IN  IF e.return THEN e.value ELSE NewtonIterate(e.value, xx, NewtonIterations)

\* mathfunctions::sqrt: detail::sqrt under USE_MYMATH, std::sqrt otherwise
MathFunctionsTarget(useMyMath) == IF useMyMath THEN "detail::sqrt" ELSE "std::sqrt"

\* the function main calls: mysqrt under USE_MYMATH, ::sqrt of <cmath> otherwise
MainTarget(useMyMath) == IF useMyMath THEN "mysqrt" ELSE "sqrt"

\* the functions that run the internal routine, and those that run std::sqrt
InternalNames == {"detail::sqrt", "mysqrt"}
StdNames == {"std::sqrt", "sqrt"}

-----------------------------------------------------------------------------
(* The inputs. *)

\* the characters of a program name: both separators, the bar, a letter
PathChars == {"/", "\\", "|", "p"}
ProgNames == SeqsUpTo(PathChars, MaxNameLen)
\* the program names tried when a positional argument is given
ShortNames == {<<"p">>, <<"/", "p">>}

\* first positional arguments: numbers, numbers followed by other characters,
\* and strings std::stod rejects
NumberArgs ==
    { <<"4">>, <<"2">>, <<"0">>, <<"-", "1">>, <<"-", "0", ".", "5">>,
      <<"0", ".", "2", "5">>, <<".", "5">>, <<"2", ".">>, <<"+", "9">>,
      <<" ", "1", "6">>, <<"4", "z">>, <<"1", "e", "2">>, <<"1", "E", "+", "2">>,
      <<"2", "5", "e", "-", "1">>, <<"1", "e">>, <<"1", "e", "5">>,
      <<"1", "0", "0", "0", "0", "0">>, <<"n", "a", "n">>, <<"-", "n", "a", "n">>,
      <<>>, <<"z">>, <<"-">>, <<".">>, <<"e", "5">>, <<" ">>, <<"z", "4">>,
      <<"1", "e", "9", "9", "9">>, <<"1", "e", "-", "9", "9", "9">> }
ModelledArgs == {a \in NumberArgs : Stod(a).kind # "unmodelled"}

\* what may follow the first positional argument
ExtraArgs == {<<"9">>, <<"z">>}

Arguments ==
    {<<name>> : name \in ProgNames}
    \cup {<<name, a>> \o extra :
            name \in ShortNames, a \in ModelledArgs, extra \in SeqsUpTo(ExtraArgs, MaxExtra)}

\* TutorialConfig.h is generated by the build: the two version numbers and,
\* per translation unit, whether USE_MYMATH is defined
Builds ==
    [Tutorial_VERSION_MAJOR : 0..MaxVersion, Tutorial_VERSION_MINOR : 0..MaxVersion,
     USE_MYMATH_tutorial : BOOLEAN, USE_MYMATH_lib : BOOLEAN]

\* the arguments of the library client
MathInputs ==
    {NaN} \cup {Whole(k) : k \in (-3)..MaxWhole}
          \cup {Num(n) : n \in {-50, 1, 25, 50, 150, 225}}
          \cup {Whole(k) : k \in {100, 1000, 10000, MaxMagnitude}}

-----------------------------------------------------------------------------
(* The output stream and the exit status. *)

Text(s) == [kind |-> "text", s |-> s, v |-> Num(0)]
Real(v) == [kind |-> "double", s |-> "", v |-> v]
Endl == Text("\n")

NoStatus == 0 - 1
\* an uncaught exception ends in std::terminate, which calls abort: SIGABRT
AbortStatus == 128 + 6

argc == Len(argv)

-----------------------------------------------------------------------------
(* main of tutorial.cxx *)

\* the index (C numbering) of the argument main converts
LastArgIndex(n) == n - 1
NumberArgIndex(n) == 1

\* the branch main takes: the banner when there is no positional argument
UsageWithoutNumberBranch(n) == n < 3
UsageBranch(n) == n < 2

\* tutorial.cxx 18-20
MainSearch ==
    /\ pc = "main"
    /\ UsageBranch(argc)
    /\ match' = RegexSearch(argv[1])
    /\ reads' = reads \cup {0}
    /\ pc' = "version"
    /\ UNCHANGED <<argv, build, cout, status, inputValue, outputValue, mpc, called, x, y, i>>

\* the two banner lines, as the items main inserts
UsageFirstLines(m, b) ==
    << <<Text("Usage: "), Text(StrOf(m.str)), Text(" number"), Endl>>,
       <<Text(StrOf(m.str)), Text(" Version "), Text(ToString(b.Tutorial_VERSION_MAJOR)),
         Text("."), Text(ToString(b.Tutorial_VERSION_MINOR)), Endl>> >>
BannerLines(m, b) ==
    << <<Text(StrOf(m.str)), Text(" Version "), Text(ToString(b.Tutorial_VERSION_MAJOR)),
         Text("."), Text(ToString(b.Tutorial_VERSION_MINOR)), Endl>>,
       <<Text("Usage: "), Text(StrOf(m.str)), Text(" number"), Endl>> >>

\* tutorial.cxx 22-23
MainVersion ==
    /\ pc = "version"
    /\ cout' = cout \o BannerLines(match, build)[1]
    /\ pc' = "usage"
    /\ UNCHANGED <<argv, build, status, match, inputValue, outputValue, reads, mpc, called, x, y, i>>

\* tutorial.cxx 24
MainUsage ==
    /\ pc = "usage"
    /\ cout' = cout \o BannerLines(match, build)[2]
    /\ pc' = "return1"
    /\ UNCHANGED <<argv, build, status, match, inputValue, outputValue, reads, mpc, called, x, y, i>>

\* tutorial.cxx 25
MainReturn1 ==
    /\ pc = "return1"
    /\ status' = 1
    /\ pc' = "exited"
    /\ UNCHANGED <<argv, build, cout, match, inputValue, outputValue, reads, mpc, called, x, y, i>>

\* what main does with the result of std::stod: it has no try block, so an
\* exception leaves main
RejectNegative(r) == r.kind = "value" /\ ~FLess(r.v, Num(0))
Converted(r) == r.kind = "value"

\* tutorial.cxx 28, the conversion succeeds
MainStod ==
    /\ pc = "main"
    /\ ~UsageBranch(argc)
    /\ LET r == Stod(argv[NumberArgIndex(argc) + 1])
       IN  /\ Converted(r)
           /\ inputValue' = r.v
    /\ reads' = reads \cup {NumberArgIndex(argc)}
    /\ pc' = "calc"
    /\ UNCHANGED <<argv, build, cout, status, match, outputValue, mpc, called, x, y, i>>

\* tutorial.cxx 28, std::stod throws std::invalid_argument or std::out_of_range
MainStodThrows ==
    /\ pc = "main"
    /\ ~UsageBranch(argc)
    /\ ~Converted(Stod(argv[NumberArgIndex(argc) + 1]))
    /\ reads' = reads \cup {NumberArgIndex(argc)}
    /\ status' = AbortStatus
    /\ pc' = "aborted"
    /\ UNCHANGED <<argv, build, cout, match, inputValue, outputValue, mpc, called, x, y, i>>

\* tutorial.cxx 31-35, the call
MainCall ==
    /\ pc = "calc"
    /\ mpc = "idle"
    /\ mpc' = MainTarget(build.USE_MYMATH_tutorial)
    /\ called' = Append(called, MainTarget(build.USE_MYMATH_tutorial))
    /\ x' = inputValue
    /\ pc' = "in call"
    /\ UNCHANGED <<argv, build, cout, status, match, inputValue, outputValue, reads, y, i>>

\* tutorial.cxx 31-35, the call returns
MainAssign ==
    /\ pc = "in call"
    /\ mpc = "returned"
    /\ outputValue' = y
    /\ mpc' = "idle"
    /\ pc' = "print"
    /\ UNCHANGED <<argv, build, cout, status, match, inputValue, reads, called, x, y, i>>

ResultLine(in, out) ==
    <<Text("The square root of "), Real(in), Text(" is "), Real(out), Endl>>

\* tutorial.cxx 36-37
MainPrint ==
    /\ pc = "print"
    /\ cout' = cout \o ResultLine(inputValue, outputValue)
    /\ pc' = "return0"
    /\ UNCHANGED <<argv, build, status, match, inputValue, outputValue, reads, mpc, called, x, y, i>>

\* tutorial.cxx 38
MainReturn0 ==
    /\ pc = "return0"
    /\ status' = 0
    /\ pc' = "exited"
    /\ UNCHANGED <<argv, build, cout, match, inputValue, outputValue, reads, mpc, called, x, y, i>>

-----------------------------------------------------------------------------
(* The square-root call, step by step. *)

\* MathFunctions.cxx 11-18
MathFunctionsSqrt ==
    /\ mpc = "mathfunctions::sqrt"
    /\ mpc' = MathFunctionsTarget(build.USE_MYMATH_lib)
    /\ called' = Append(called, MathFunctionsTarget(build.USE_MYMATH_lib))
    /\ UNCHANGED <<argv, build, pc, cout, status, match, inputValue, outputValue, reads, x, y, i>>

\* std::sqrt (MathFunctions.cxx 16, tutorial.cxx 34)
StdSqrtReturn ==
    /\ mpc \in StdNames
    /\ y' = StdSqrt(x)
    /\ mpc' = "returned"
    /\ UNCHANGED <<argv, build, pc, cout, status, match, inputValue, outputValue, reads, called, x, i>>

\* the internal routine returns at once
InternalReturnEarly ==
    /\ mpc \in InternalNames
    /\ InternalEntry(x).return
    /\ y' = InternalEntry(x).value
    /\ i' = 0
    /\ mpc' = "returned"
    /\ UNCHANGED <<argv, build, pc, cout, status, match, inputValue, outputValue, reads, called, x>>

\* the internal routine starts the loop
InternalStart ==
    /\ mpc \in InternalNames
    /\ ~InternalEntry(x).return
    /\ y' = InternalEntry(x).value
    /\ i' = 0
    /\ mpc' = "loop"
    /\ UNCHANGED <<argv, build, pc, cout, status, match, inputValue, outputValue, reads, called, x>>

\* one update
InternalUpdate ==
    /\ mpc = "loop"
    /\ LoopContinues(i, y, x)
    /\ y' = NewtonUpdate(y, x)
    /\ i' = i + 1
    /\ UNCHANGED <<argv, build, pc, cout, status, match, inputValue, outputValue, reads, mpc, called, x>>

\* the loop ends; the routine returns the estimate
InternalReturn ==
    /\ mpc = "loop"
    /\ ~LoopContinues(i, y, x)
    /\ mpc' = "returned"
    /\ UNCHANGED <<argv, build, pc, cout, status, match, inputValue, outputValue, reads, called, x, y, i>>

-----------------------------------------------------------------------------
(* The program. *)

Init ==
    /\ argv \in Arguments
    /\ build \in Builds
    /\ pc = "main"
    /\ cout = <<>>
    /\ status = NoStatus
    /\ match = NoMatch
    /\ inputValue = Num(0)
    /\ outputValue = Num(0)
    /\ reads = {}
    /\ mpc = "idle"
    /\ called = <<>>
    /\ x = Num(0)
    /\ y = Num(0)
    /\ i = 0

Next ==
    \/ MainSearch
    \/ MainVersion
    \/ MainUsage
    \/ MainReturn1
    \/ MainStod
    \/ MainStodThrows
    \/ MainCall
    \/ MainAssign
    \/ MainPrint
    \/ MainReturn0
    \/ StdSqrtReturn
    \/ InternalReturnEarly
    \/ InternalStart
    \/ InternalUpdate
    \/ InternalReturn

Spec == Init /\ [][Next]_vars

-----------------------------------------------------------------------------
(* A client of the library: one call of mathfunctions::sqrt. *)

ClientCall ==
    /\ pc = "client"
    /\ mpc = "idle"
    /\ mpc' = "mathfunctions::sqrt"
    /\ called' = Append(called, "mathfunctions::sqrt")
    /\ pc' = "in call"
    /\ UNCHANGED <<argv, build, cout, status, match, inputValue, outputValue, reads, x, y, i>>

ClientReturn ==
    /\ pc = "in call"
    /\ mpc = "returned"
    /\ outputValue' = y
    /\ mpc' = "idle"
    /\ pc' = "client done"
    /\ UNCHANGED <<argv, build, cout, status, match, inputValue, reads, called, x, y, i>>

MathInit ==
    /\ argv = <<<<"p">>>>
    /\ build \in Builds
    /\ pc = "client"
    /\ cout = <<>>
    /\ status = NoStatus
    /\ match = NoMatch
    /\ x \in MathInputs
    /\ inputValue = x
    /\ outputValue = Num(0)
    /\ reads = {}
    /\ mpc = "idle"
    /\ called = <<>>
    /\ y = Num(0)
    /\ i = 0

MathNext ==
    \/ ClientCall
    \/ MathFunctionsSqrt
    \/ StdSqrtReturn
    \/ InternalReturnEarly
    \/ InternalStart
    \/ InternalUpdate
    \/ InternalReturn
    \/ ClientReturn

\* the call is sequential code: it keeps running until it returns
MathSpec == MathInit /\ [][MathNext]_vars /\ WF_vars(MathNext)

-----------------------------------------------------------------------------
(* Vocabulary of the properties. *)

Ended == pc \in {"exited", "aborted"}

RECURSIVE Written(_)
\* the characters of a sequence of text items, as one string
Written(items) == IF items = <<>> THEN "" ELSE Head(items).s \o Written(Tail(items))

AllText(items) == \A k \in 1..Len(items) : items[k].kind = "text"

\* the two lines of the usage banner for the basename bn
BannerText(bn, major, minor) ==
    bn \o " Version " \o ToString(major) \o "." \o ToString(minor) \o "\n"
       \o "Usage: " \o bn \o " number" \o "\n"

VersionLineText(bn, major, minor) ==
    bn \o " Version " \o ToString(major) \o "." \o ToString(minor) \o "\n"

Suffixes(s) == {SubSeq(s, k, Len(s)) : k \in 1..(Len(s) + 1)}
PathSeparators == {"/", "\\"}
HasNo(s, chars) == \A k \in 1..Len(s) : s[k] \notin chars

\* the longest trailing run of s without a path separator
TrailingSegment(s) == SubSeq(s, RunStart(s, PathSeparators), Len(s))

\* the outcome of converting the first positional argument
FirstArg == Stod(argv[2])
Parses == FirstArg.kind = "value"

\* the positions of main on the success path after the conversion
AfterConversion == {"calc", "in call", "print", "return0"}

-----------------------------------------------------------------------------
(* C1: with no positional argument (argc < 2) main never converts an       *)
(* argument and never calls a square-root function; it writes the version  *)
(* line first and the usage line second, both with the same basename (a     *)
(* suffix of argv[0] free of path separators), nothing else, and exits     *)
(* with status 1.                                                          *)
C1_UsageBanner ==
    argc < 2 =>
        /\ called = <<>>
        /\ reads \subseteq {0}
        /\ AllText(cout)
        /\ pc \in {"main", "version", "usage", "return1", "exited"}
        /\ pc \in {"main", "version"} => cout = <<>>
        /\ pc = "usage" =>
              \E bn \in Suffixes(argv[1]) :
                  /\ HasNo(bn, PathSeparators)
                  /\ Written(cout) = VersionLineText(StrOf(bn), build.Tutorial_VERSION_MAJOR,
                                                     build.Tutorial_VERSION_MINOR)
        /\ pc \in {"return1", "exited"} =>
              \E bn \in Suffixes(argv[1]) :
                  /\ HasNo(bn, PathSeparators)
                  /\ Written(cout) = BannerText(StrOf(bn), build.Tutorial_VERSION_MAJOR,
                                                build.Tutorial_VERSION_MINOR)
        /\ pc = "exited" => status = 1
        /\ pc # "exited" => status = NoStatus /\ ENABLED Next

C1_Witness ==
    /\ argc < 2
    /\ pc = "exited"
    /\ match.matched
    /\ Len(match.str) < Len(argv[1])

-----------------------------------------------------------------------------
(* C2: the exit status is 0 exactly when a positional argument is present  *)
(* and converts (and then the result line has been written), 1 exactly     *)
(* when no positional argument is present, and non-zero when the first     *)
(* positional argument does not convert; in that case the process ends     *)
(* with nothing written and never reaches the success path.                *)
C2_ExitStatus ==
    /\ ~Ended => status = NoStatus
    /\ Ended => (status = 0 <=> (argc >= 2 /\ Parses))
    /\ Ended => (status = 1 <=> argc < 2)
    /\ status = 0 =>
          /\ Len(cout) = 5
          /\ cout[1] = Text("The square root of ")
          /\ cout[5] = Endl
    /\ (argc >= 2 /\ ~Parses) =>
          /\ cout = <<>>
          /\ called = <<>>
          /\ pc \in {"main", "aborted"}
          /\ pc = "aborted" => status # 0 /\ status # NoStatus

C2_Witness ==
    /\ argc >= 2
    /\ FirstArg.kind = "out_of_range"
    /\ pc = "aborted"

-----------------------------------------------------------------------------
(* C3: the basename in both banner lines is the longest trailing run of    *)
(* argv[0] that contains neither '/' nor '\' (no other character ends it). *)
C3_BasenameIsTrailingSegment ==
    (argc < 2 /\ pc = "exited") =>
        Written(cout) = BannerText(StrOf(TrailingSegment(argv[1])),
                                   build.Tutorial_VERSION_MAJOR, build.Tutorial_VERSION_MINOR)

-----------------------------------------------------------------------------
(* C4: on the success path main obtains the printed value by calling       *)
(* mathfunctions::sqrt, so the value is the internal routine's when the    *)
(* library is built with USE_MYMATH and std::sqrt's otherwise.             *)
MathLibValue(v, useMyMath) == IF useMyMath THEN InternalSqrt(v) ELSE StdSqrt(v)

C4_MainCallsMathLib ==
    (argc >= 2 /\ pc \in {"print", "return0", "exited"}) =>
        /\ called # <<>>
        /\ called[1] = "mathfunctions::sqrt"
        /\ outputValue = MathLibValue(inputValue, build.USE_MYMATH_lib)

-----------------------------------------------------------------------------
(* C5: for every x >= 1 the value r that mathfunctions::sqrt returns has   *)
(* |r * r - x| / max(1, x) <= 1e-6, with either backend.                   *)
(* In units of 1 / Scale^2 the bound is max(Scale^2, x.n * Scale) / 10^6.  *)
(* The estimate of the model differs from the estimate in real numbers by  *)
(* RoundingUnits units at most (each update rounds down twice, by less     *)
(* than one unit together, and halves the error it inherits), so the       *)
(* squares differ by RoundingUnits * (2 * r.n + RoundingUnits) at most:    *)
(* the formula allows for that, and its violation is one of the claim.     *)
RoundingUnits == 2 * 2
Abs(n) == IF n < 0 THEN -n ELSE n
Max(a, b) == IF a < b THEN b ELSE a

C5_Accuracy ==
    (pc = "client done" /\ ~x.nan /\ x.n >= Scale) =>
        /\ ~outputValue.nan
        /\ Abs(outputValue.n * outputValue.n - x.n * Scale)
              <= (Max(Scale * Scale, x.n * Scale) \div Pow10(6)) + 1
                    + RoundingUnits * (2 * outputValue.n + RoundingUnits)

-----------------------------------------------------------------------------
(* C6: for x > 0 the internal routine starts from y = x, performs the      *)
(* update exactly NewtonIterations times whatever x is, with no early      *)
(* exit, then returns the estimate it has reached; and it does return.     *)
InternalCall == \E k \in 1..Len(called) : called[k] \in InternalNames

C6_FixedIterations ==
    /\ [](  (InternalCall /\ FLess(Num(0), x)) =>
              /\ mpc = "loop" => (i <= NewtonIterations /\ y = NewtonIterate(x, x, i))
              /\ mpc \in {"returned", "idle"} =>
                    /\ i = NewtonIterations
                    /\ y = NewtonIterate(x, x, NewtonIterations)
              /\ pc = "client done" => outputValue = y )
    /\ ((InternalCall /\ FLess(Num(0), x)) ~> (pc = "client done"))

C6_Witness ==
    /\ InternalCall
    /\ FLess(Whole(1), x)
    /\ pc = "client done"
    /\ i = NewtonIterations

-----------------------------------------------------------------------------
-----------------------------------------------------------------------------
(* C8: a first positional argument that converts to a negative number or   *)
(* to NaN is no error: main writes the one line "The square root of        *)
(* <input> is <output>" with a NaN output and exits with status 0; it      *)
(* takes neither the usage branch nor an abnormal end.                     *)
DomainIssue == argc >= 2 /\ Parses /\ (IsNaN(FirstArg.v) \/ FLess(FirstArg.v, Num(0)))

C8_DomainIssueIsNoError ==
    DomainIssue =>
        /\ pc \in {"main", "exited"} \cup AfterConversion
        /\ pc # "exited" => ENABLED Next
        /\ pc \in {"main", "calc", "in call", "print"} => cout = <<>>
        /\ pc \in {"return0", "exited"} =>
              /\ Len(cout) = 5
              /\ cout[1] = Text("The square root of ")
              /\ cout[2] = Real(FirstArg.v)
              /\ cout[3] = Text(" is ")
              /\ cout[4].kind = "double" /\ IsNaN(cout[4].v)
              /\ cout[5] = Endl
        /\ pc = "exited" => status = 0

C8_Witness ==
    /\ DomainIssue
    /\ FLess(inputValue, Num(0))
    /\ pc = "exited"

-----------------------------------------------------------------------------
(* C9: with no positional argument and an argv[0] that is empty or ends in *)
(* '/' or '\', main does not fail: it writes both banner lines with an     *)
(* empty basename and exits with status 1.                                 *)
NoBasename ==
    /\ argc < 2
    /\ argv[1] = <<>> \/ argv[1][Len(argv[1])] \in PathSeparators

C9_EmptyBasename ==
    NoBasename =>
        /\ pc # "aborted"
        /\ pc # "exited" => ENABLED Next
        /\ pc = "exited" =>
              /\ status = 1
              /\ Written(cout) = BannerText("", build.Tutorial_VERSION_MAJOR,
                                            build.Tutorial_VERSION_MINOR)

C9_Witness ==
    /\ NoBasename
    /\ Len(argv[1]) > 1
    /\ pc = "exited"

-----------------------------------------------------------------------------
(* C10: main reads argv[0] and argv[1] only: with more than one positional *)
(* argument the output and the exit status are those of the invocation     *)
(* with the first positional argument alone.                               *)

\* main as a function of its arguments and of the build
MainResult(av, b) ==
    IF Len(av) < 2
    THEN [cout |-> BannerLines(RegexSearch(av[1]), b)[1] \o BannerLines(RegexSearch(av[1]), b)[2],
          status |-> 1]
    ELSE LET r == Stod(av[2])
         IN  IF r.kind # "value" THEN [cout |-> <<>>, status |-> AbortStatus]
             ELSE [cout |-> ResultLine(r.v, IF b.USE_MYMATH_tutorial THEN InternalSqrt(r.v)
                                                                      ELSE StdSqrt(r.v)),
                   status |-> 0]

C10_ExtraArgumentsIgnored ==
    /\ reads \subseteq {0, 1}
    /\ (argc > 2 /\ Ended) =>
          /\ cout = MainResult(SubSeq(argv, 1, 2), build).cout
          /\ status = MainResult(SubSeq(argv, 1, 2), build).status

C10_Witness ==
    /\ argc > 2
    /\ pc = "exited"
    /\ status = 0
    /\ reads = {1}

=============================================================================
